---------------------------- MODULE Spec2Model ----------------------------
(***************************************************************************)
(* Model of prometheus_remediation/job_runner.py: the action               *)
(* run_job_from_alert and its helper __get_alert_env_vars.                 *)
(*                                                                         *)
(* Each invocation of the action is one process.  Its steps are cut at the *)
(* calls it makes to the cluster (job.create, wait_until_job_complete,     *)
(* job.get_single_pod, pod.get_logs); everything the handler does between  *)
(* two such calls belongs to the step of the earlier call.                 *)
(*                                                                         *)
(* Python values:                                                          *)
(*   - Optional[T] is a sequence of length 0 (None) or 1 (the value);      *)
(*   - a str that the code transforms or concatenates (label names, env    *)
(*     var names, message texts) is a sequence of pieces, so that          *)
(*     upper-casing, prefixing and "contains" are computed, not assumed;   *)
(*   - a dict (alert labels) is the sequence of its items in iteration     *)
(*     order, with pairwise distinct keys.                                 *)
(***************************************************************************)
EXTENDS Naturals, Sequences, FiniteSets

VARIABLES
    params,       \* params[i]: the JobParams the invocation was given
    event,        \* event[i]: the PrometheusKubernetesAlert it was given
    pc,           \* pc[i]: where the invocation's control is
    job_name,     \* job_name[i]: Optional, set by line 123
    job,          \* job[i]: Optional, the Job object built by lines 124-145
    enrichments,  \* enrichments[i]: the blocks added to event[i], in order
    log,          \* log[i]: what the invocation logged and printed, in order
    calls,        \* calls[i]: the cluster calls the invocation made and how
                  \* each ended ("ok", "error", "timeout", "cancelled"),
                  \* in order
    targets,      \* targets[i]: the name of the Job each of these calls was
                  \* made on, in the same order
    raised,       \* raised[i]: the exception that left run_job_from_alert
    caught,       \* caught[i]: Optional, the exception the except clause got
    fetched,      \* fetched[i]: Optional, the text pod.get_logs() returned
    cluster       \* the Job objects the cluster holds

vars == <<params, event, pc, job_name, job, enrichments, log, calls,
          targets, raised, caught, fetched, cluster>>

----------------------------------------------------------------------------
(* Bounds of the model *)

\* at most this many labels on an alert
MaxLabels == 2

\* at most this many caller-supplied env_vars
MaxEnvVars == 1

\* the invocations
Invs == {"a1", "a2"}

----------------------------------------------------------------------------
(* Python values *)

None == <<>>

Some(x) == <<x>>

\* truth value of an Optional[str]: None and "" are falsy
Truthy(o) == o /= None /\ o[1] /= ""

\* str.upper() on one character
UpperChar(c) ==
    CASE c = "f" -> "F"
      [] c = "o" -> "O"
      [] c = "b" -> "B"
      [] c = "a" -> "A"
      [] c = "r" -> "R"
      [] OTHER -> c

\* str.upper()
Upper(s) == [j \in 1..Len(s) |-> UpperChar(s[j])]

\* an exception object: str(e) is its message
Exception(m) == [type |-> "Exception", msg |-> m]

\* a call to the cluster and how it ended
Call(op, result) == [op |-> op, result |-> result]

\* hikaru EnvVar(name=..., value=...)
EnvVar(n, v) == [name |-> n, value |-> v]

----------------------------------------------------------------------------
(* __get_alert_env_vars, lines 77-96 *)

\* lines 79-84
base_env_vars(ev) ==
    << EnvVar(<<"ALERT_NAME">>, ev.alert_name),
       EnvVar(<<"ALERT_STATUS">>, ev.status),
       EnvVar(<<"ALERT_OBJ_KIND">>, ev.subject.subject_type),
       EnvVar(<<"ALERT_OBJ_NAME">>, ev.subject.name) >>

\* mutant of namespace_env_vars: tests "is not None" instead of truth
namespace_env_vars_not_none(ev) ==
    IF ev.subject.namespace /= None
    THEN << EnvVar(<<"ALERT_OBJ_NAMESPACE">>, ev.subject.namespace[1]) >>
    ELSE << >>

\* lines 86-87
namespace_env_vars(ev) ==
    IF Truthy(ev.subject.namespace)
    THEN << EnvVar(<<"ALERT_OBJ_NAMESPACE">>, ev.subject.namespace[1]) >>
    ELSE << >>

\* lines 88-89
node_env_vars(ev) ==
    IF Truthy(ev.subject.node)
    THEN << EnvVar(<<"ALERT_OBJ_NODE">>, ev.subject.node[1]) >>
    ELSE << >>

\* line 90: the attribute reference params.env_var.  JobParams declares
\* env_vars (line 73) and no env_var, so the reference is answered by the
\* base class ActionParams of the host library: "missing" is an
\* AttributeError, otherwise the object carries an undeclared attribute of
\* that name whose value is None ("none") or not ("set").
env_var_lookup(p) == p.env_var_attr

\* lines 90-91: the exception they raise, or "none"
extra_env_exc(p) ==
    IF env_var_lookup(p) = "missing" THEN "AttributeError"
    ELSE IF env_var_lookup(p) = "set" /\ p.env_vars = None THEN "TypeError"
    ELSE "none"

\* lines 90-91: what alert_env_vars.extend appends
extra_env_vars(p) ==
    IF env_var_lookup(p) = "set" /\ p.env_vars /= None
    THEN p.env_vars[1]
    ELSE << >>

\* mutant of label_vars: the label name is not upper-cased
label_vars_no_upper(ev) ==
    [j \in 1..Len(ev.labels) |->
        EnvVar(<<"ALERT_LABEL_">> \o ev.labels[j].k, ev.labels[j].v)]

\* line 93
label_vars(ev) ==
    [j \in 1..Len(ev.labels) |->
        EnvVar(<<"ALERT_LABEL_">> \o Upper(ev.labels[j].k), ev.labels[j].v)]

\* lines 77-96: [exc |-> the exception raised or "none", list |-> the result]
get_alert_env_vars(ev, p) ==
    IF extra_env_exc(p) /= "none"
    THEN [exc |-> extra_env_exc(p), list |-> << >>]
    ELSE [exc |-> "none",
          list |-> base_env_vars(ev) \o namespace_env_vars(ev)
                   \o node_env_vars(ev) \o extra_env_vars(p)
                   \o label_vars(ev)]


----------------------------------------------------------------------------
(* Values the handler builds *)

\* JobParams.job_ttl_after_finished default
job_ttl_after_finished_default == 120

\* JobParams.completion_timeout default
completion_timeout_default == 300

\* the message wait_until_job_complete raises when its deadline has elapsed,
\* as line 162 spells it
TimeoutMsg == "Failed to reach wait condition"

\* line 123: to_kubernetes_name(params.name).  The host library's function
\* makes the name legal and suffixes it with a time stamp: the result is
\* the pair of the sanitized name and the stamp uid.
Sanitize(name) ==
    CASE name = "my job" -> "my-job"
      [] OTHER -> name

to_kubernetes_name(name, uid) == << Sanitize(name), uid >>

\* line 150: the text of the "created" block, in pieces
CreatedText(jn) ==
    << <<"**Action Job Information** \n Created Job from alert: *">>,
       jn, <<"*.">> >>

\* line 166: err_str, in pieces
TimedOutText(jn) ==
    << <<"Action Job ">>, jn, <<" ">>, <<"timed out">>,
       <<". Could not fetch output">> >>

MarkdownBlock(text) == [type |-> "markdown", text |-> text, filename |-> "",
                        contents |-> ""]

FileBlock(filename, contents) ==
    [type |-> "file", text |-> << >>, filename |-> filename,
     contents |-> contents]

\* mutant of BuildJob: the Job is submitted before its environment is set
BuildJob_no_env(jn, p, env) ==
    [ name |-> jn,
      namespace |-> p.namespace,
      container_name |-> p.name,
      image |-> p.image,
      command |-> p.command,
      env |-> << >>,
      serviceAccountName |-> p.service_account,
      restartPolicy |-> p.restart_policy,
      backoffLimit |-> p.backoff_limit,
      activeDeadlineSeconds |-> p.active_deadline_seconds,
      ttlSecondsAfterFinished |-> p.job_ttl_after_finished ]

\* lines 124-145: the Job object
BuildJob(jn, p, env) ==
    [ name |-> jn,
      namespace |-> p.namespace,
      container_name |-> p.name,
      image |-> p.image,
      command |-> p.command,
      env |-> env,
      serviceAccountName |-> p.service_account,
      restartPolicy |-> p.restart_policy,
      backoffLimit |-> p.backoff_limit,
      activeDeadlineSeconds |-> p.active_deadline_seconds,
      ttlSecondsAfterFinished |-> p.job_ttl_after_finished ]

\* mutant of created_enrichments: the creation is never notified
created_enrichments_none(p, jn) == << >>

\* mutant of created_enrichments: the creation is notified whatever notify
created_enrichments_always(p, jn) == << MarkdownBlock(CreatedText(jn)) >>

\* lines 149-150: the blocks added after job.create() returned
created_enrichments(p, jn) ==
    IF p.notify THEN << MarkdownBlock(CreatedText(jn)) >> ELSE << >>

\* mutant of after_create_pc: waits when notify is set
after_create_pc_notify(p) == IF p.notify THEN "wait" ELSE "returned"

\* mutant of after_create_pc: waits whatever wait_for_completion says
after_create_pc_always_wait(p) == "wait"

\* line 152: where control goes after lines 147-150
after_create_pc(p) ==
    IF p.wait_for_completion THEN "wait" ELSE "returned"

\* line 162: str(e) != "Failed to reach wait condition"
is_other_error(e) == e.msg /= TimeoutMsg

\* lines 161-167: what the except clause prints and logs
except_log(jn, e) ==
    IF is_other_error(e)
    THEN << [level |-> "print", what |-> "exception", msg |-> e.msg],
            [level |-> "print", what |-> "ERROR TRUE", msg |-> ""],
            [level |-> "warning", what |-> "stopped", msg |-> e.msg] >>
    ELSE << [level |-> "print", what |-> "exception", msg |-> e.msg],
            [level |-> "warning", what |-> "timed out", msg |-> ""] >>

\* mutant of except_enrichments: the timeout is only logged
except_enrichments_none(jn, e) == << >>

\* line 168: the blocks the except clause adds
except_enrichments(jn, e) ==
    IF is_other_error(e) THEN << >>
    ELSE << MarkdownBlock(TimedOutText(jn)) >>

\* mutant of log_enrichments: the file block is added without the text
log_enrichments_empty(text) == << FileBlock("job-runner-logs.txt", "") >>

\* lines 157-159: the block added once the logs are fetched
log_enrichments(text) == << FileBlock("job-runner-logs.txt", text) >>

----------------------------------------------------------------------------
(* Inputs *)

\* time stamps to_kubernetes_name may draw
Uids == {"t1", "t2"}

\* message texts of the errors the cluster calls may raise
Msgs == {TimeoutMsg, "pod not found"}

\* texts pod.get_logs() may return
LogTexts == {"hi\n", ""}

\* label names, character by character
LabelNames == { <<"f","o","o">>, <<"F","o","o">>, <<"b","a","r">> }

LabelValues == {"v1", "v2"}

\* sequences over S of length at most n without repeated key
RECURSIVE SeqsUpTo(_, _)
SeqsUpTo(S, n) ==
    IF n = 0 THEN { << >> }
    ELSE LET shorter == SeqsUpTo(S, n - 1)
         IN  shorter \cup { Append(s, x) : s \in shorter, x \in S }

\* the label mappings: items in iteration order, keys pairwise distinct
LabelMaps ==
    { m \in SeqsUpTo([k : LabelNames, v : LabelValues], MaxLabels) :
        \A a, b \in 1..Len(m) : a /= b => m[a].k /= m[b].k }

\* names a caller may give its own env_vars
CallerEnvNames ==
    { <<"MY_VAR">>, <<"ALERT_OBJ_NAMESPACE">>, <<"ALERT_OBJ_NODE">>,
      <<"ALERT_LABEL_", "F", "O", "O">> }

CallerEnvVars == { EnvVar(n, "x") : n \in CallerEnvNames }

MakeEvent(ns, node, labels) ==
    [ alert_name |-> "HighCPU",
      status |-> "firing",
      subject |-> [subject_type |-> "pod", name |-> "web-0",
                   namespace |-> ns, node |-> node],
      labels |-> labels ]

\* JobParams with the defaults of lines 63-73
MakeParams(image, command, notify, wait, attr, env_vars) ==
    [ image |-> image,
      command |-> command,
      name |-> "robusta-action-job",
      namespace |-> "default",
      service_account |-> None,
      restart_policy |-> "OnFailure",
      job_ttl_after_finished |-> job_ttl_after_finished_default,
      notify |-> notify,
      wait_for_completion |-> wait,
      completion_timeout |-> completion_timeout_default,
      backoff_limit |-> None,
      active_deadline_seconds |-> None,
      env_vars |-> env_vars,
      env_var_attr |-> attr ]

AttrStates == {"missing", "none", "set"}

\* inputs of the builder
BuildEvents ==
    { MakeEvent(ns, node, m) :
        ns \in {None, Some(""), Some("ns1")},
        node \in {None, Some(""), Some("node1")},
        m \in LabelMaps }

BuildParams ==
    { MakeParams("busybox", <<"echo", "hi">>, FALSE, TRUE, a, ev) :
        a \in AttrStates,
        ev \in {None} \cup { Some(l) : l \in SeqsUpTo(CallerEnvVars, MaxEnvVars) } }

\* inputs of the whole handler
LifeEvents ==
    { MakeEvent(Some("ns1"), None, << [k |-> <<"f","o","o">>, v |-> "v1"] >>),
      MakeEvent(None, Some("node1"), << >>) }

LifeParams ==
    { MakeParams(image, command, notify, wait, a, ev) :
        image \in {"", "busybox"},
        command \in {<< >>, <<"echo", "hi">>},
        notify \in BOOLEAN,
        wait \in BOOLEAN,
        a \in AttrStates,
        ev \in {None, Some(<< EnvVar(<<"MY_VAR">>, "x") >>)} }

\* inputs of two concurrent invocations
ConcParams ==
    { MakeParams("busybox", <<"echo", "hi">>, notify, wait, a, None) :
        notify \in BOOLEAN,
        wait \in BOOLEAN,
        a \in {"missing", "none"} }

----------------------------------------------------------------------------
(* The state before the invocations in `active` run *)

InitWith(PS, ES, active) ==
    /\ \E pf \in [active -> PS] :
          params = [i \in Invs |-> IF i \in active THEN pf[i]
                                   ELSE CHOOSE p \in PS : TRUE]
    /\ \E ef \in [active -> ES] :
          event = [i \in Invs |-> IF i \in active THEN ef[i]
                                  ELSE CHOOSE e \in ES : TRUE]
    /\ pc = [i \in Invs |-> IF i \in active THEN "start" ELSE "idle"]
    /\ job_name = [i \in Invs |-> None]
    /\ job = [i \in Invs |-> None]
    /\ enrichments = [i \in Invs |-> << >>]
    /\ log = [i \in Invs |-> << >>]
    /\ calls = [i \in Invs |-> << >>]
    /\ targets = [i \in Invs |-> << >>]
    /\ raised = [i \in Invs |-> "none"]
    /\ caught = [i \in Invs |-> None]
    /\ fetched = [i \in Invs |-> None]
    /\ cluster = {}

Init == InitWith(LifeParams, LifeEvents, {"a1"})

InitBuild == InitWith(BuildParams, BuildEvents, {"a1"})

\* two invocations at once, each on its own alert
InitConc == InitWith(ConcParams, LifeEvents, Invs)

----------------------------------------------------------------------------
(* run_job_from_alert, lines 101-168 *)

\* line 123: the time stamps to_kubernetes_name may draw for invocation i.
\* The host library documents the name it returns as unique: no two
\* invocations get the same stamp.
FreshUids(i) ==
    { u \in Uids :
        \A j \in Invs \ {i} : job_name[j] = None \/ job_name[j][1][2] /= u }

\* lines 122-145: log, name the job, build the Job object; the stamp of the
\* name is drawn from U
StartWith(i, U) ==
    /\ pc[i] = "start"
    /\ \E uid \in U :
        LET jn  == to_kubernetes_name(params[i].name, uid)
            res == get_alert_env_vars(event[i], params[i])
        IN  /\ log' = [log EXCEPT ![i] = Append(@,
                         [level |-> "info", what |-> "running", msg |-> ""])]
            /\ job_name' = [job_name EXCEPT ![i] = Some(jn)]
            /\ IF res.exc /= "none"
               THEN /\ raised' = [raised EXCEPT ![i] = res.exc]
                    /\ pc' = [pc EXCEPT ![i] = "raised"]
                    /\ job' = job
               ELSE /\ job' = [job EXCEPT ![i] =
                                 Some(BuildJob(jn, params[i], res.list))]
                    /\ pc' = [pc EXCEPT ![i] = "create"]
                    /\ raised' = raised
    /\ UNCHANGED <<params, event, enrichments, calls, targets, caught, fetched,
                   cluster>>

\* lines 122-145
Start(i) == StartWith(i, FreshUids(i))

\* lines 160-168: the except clause, entered with exception e
Except(i, e) ==
    /\ caught' = [caught EXCEPT ![i] = Some(e)]
    /\ log' = [log EXCEPT ![i] = @ \o except_log(job_name[i][1], e)]
    /\ enrichments' = [enrichments EXCEPT ![i] =
                          @ \o except_enrichments(job_name[i][1], e)]
    /\ pc' = [pc EXCEPT ![i] = "returned"]

\* lines 147-152: job.create(), accepted by the cluster
CreateOk(i) ==
    /\ pc[i] = "create"
    /\ calls' = [calls EXCEPT ![i] = Append(@, Call("create", "ok"))]
    /\ targets' = [targets EXCEPT ![i] = Append(@, job[i][1].name)]
    /\ cluster' = cluster \cup {job[i][1]}
    /\ enrichments' = [enrichments EXCEPT ![i] =
                          @ \o created_enrichments(params[i], job_name[i][1])]
    /\ pc' = [pc EXCEPT ![i] = after_create_pc(params[i])]
    /\ UNCHANGED <<params, event, job_name, job, log, raised, caught, fetched>>

\* mutant of CreateRejected: the rejection is swallowed and create retried
CreateRejected_retry(i) ==
    /\ pc[i] = "create"
    /\ Len(calls[i]) < 2
    /\ calls' = [calls EXCEPT ![i] = Append(@, Call("create", "error"))]
    /\ targets' = [targets EXCEPT ![i] = Append(@, job[i][1].name)]
    /\ UNCHANGED <<params, event, pc, job_name, job, enrichments, log,
                   raised, caught, fetched, cluster>>

\* line 147: job.create(), rejected by the cluster: the exception is not
\* handled and leaves run_job_from_alert
CreateRejected(i) ==
    /\ pc[i] = "create"
    /\ calls' = [calls EXCEPT ![i] = Append(@, Call("create", "error"))]
    /\ targets' = [targets EXCEPT ![i] = Append(@, job[i][1].name)]
    /\ raised' = [raised EXCEPT ![i] = "ApiException"]
    /\ pc' = [pc EXCEPT ![i] = "raised"]
    /\ UNCHANGED <<params, event, job_name, job, enrichments, log, caught,
                   fetched, cluster>>

\* line 154: wait_until_job_complete returned: the job completed in time
WaitCompleted(i) ==
    /\ pc[i] = "wait"
    /\ calls' = [calls EXCEPT ![i] = Append(@, Call("wait", "ok"))]
    /\ targets' = [targets EXCEPT ![i] = Append(@, job[i][1].name)]
    /\ pc' = [pc EXCEPT ![i] = "get_pod"]
    /\ UNCHANGED <<params, event, job_name, job, enrichments, log, raised,
                   caught, fetched, cluster>>

\* line 154: wait_until_job_complete gave up at the deadline
WaitTimedOut(i) ==
    /\ pc[i] = "wait"
    /\ calls' = [calls EXCEPT ![i] = Append(@, Call("wait", "timeout"))]
    /\ targets' = [targets EXCEPT ![i] = Append(@, job[i][1].name)]
    /\ Except(i, Exception(TimeoutMsg))
    /\ UNCHANGED <<params, event, job_name, job, raised, fetched, cluster>>

\* line 154: wait_until_job_complete raised another error
WaitFailed(i) ==
    /\ pc[i] = "wait"
    /\ calls' = [calls EXCEPT ![i] = Append(@, Call("wait", "error"))]
    /\ targets' = [targets EXCEPT ![i] = Append(@, job[i][1].name)]
    /\ \E m \in Msgs :
          Except(i, Exception(m))
    /\ UNCHANGED <<params, event, job_name, job, raised, fetched, cluster>>

\* mutant of WaitCancelled: the interruption is swallowed and the handler
\* goes on as after a completed wait
WaitCancelled_swallowed(i) ==
    /\ pc[i] = "wait"
    /\ calls' = [calls EXCEPT ![i] = Append(@, Call("wait", "cancelled"))]
    /\ targets' = [targets EXCEPT ![i] = Append(@, job[i][1].name)]
    /\ pc' = [pc EXCEPT ![i] = "get_pod"]
    /\ UNCHANGED <<params, event, job_name, job, enrichments, log, raised,
                   caught, fetched, cluster>>

\* line 154: the invocation is cancelled while wait_until_job_complete
\* blocks.  The handler is synchronous: its host can only interrupt it by
\* an exception raised out of the blocked call that is no Exception
\* (KeyboardInterrupt, SystemExit); "except Exception" at line 160 does not
\* catch it and it leaves run_job_from_alert.
WaitCancelled(i) ==
    /\ pc[i] = "wait"
    /\ calls' = [calls EXCEPT ![i] = Append(@, Call("wait", "cancelled"))]
    /\ targets' = [targets EXCEPT ![i] = Append(@, job[i][1].name)]
    /\ raised' = [raised EXCEPT ![i] = "BaseException"]
    /\ pc' = [pc EXCEPT ![i] = "raised"]
    /\ UNCHANGED <<params, event, job_name, job, enrichments, log, caught,
                   fetched, cluster>>

\* lines 155-156: job.get_single_pod() returned the pod
GetPodOk(i) ==
    /\ pc[i] = "get_pod"
    /\ calls' = [calls EXCEPT ![i] = Append(@, Call("get_single_pod", "ok"))]
    /\ targets' = [targets EXCEPT ![i] = Append(@, job[i][1].name)]
    /\ pc' = [pc EXCEPT ![i] = "get_logs"]
    /\ UNCHANGED <<params, event, job_name, job, enrichments, log, raised,
                   caught, fetched, cluster>>

\* lines 155-156: job.get_single_pod() raised
GetPodFailed(i) ==
    /\ pc[i] = "get_pod"
    /\ calls' = [calls EXCEPT ![i] = Append(@, Call("get_single_pod", "error"))]
    /\ targets' = [targets EXCEPT ![i] = Append(@, job[i][1].name)]
    /\ \E m \in Msgs :
          Except(i, Exception(m))
    /\ UNCHANGED <<params, event, job_name, job, raised, fetched, cluster>>

\* mutant of GetLogsOk: the file block goes to an enrichment list that all
\* invocations share
GetLogsOk_shared(i) ==
    /\ pc[i] = "get_logs"
    /\ calls' = [calls EXCEPT ![i] = Append(@, Call("get_logs", "ok"))]
    /\ targets' = [targets EXCEPT ![i] = Append(@, job[i][1].name)]
    /\ \E text \in LogTexts :
          /\ fetched' = [fetched EXCEPT ![i] = Some(text)]
          /\ enrichments' = [k \in Invs |->
                                enrichments[k] \o log_enrichments(text)]
    /\ pc' = [pc EXCEPT ![i] = "returned"]
    /\ UNCHANGED <<params, event, job_name, job, log, raised, caught, cluster>>

\* lines 157-159: pod.get_logs() returned the text
GetLogsOk(i) ==
    /\ pc[i] = "get_logs"
    /\ calls' = [calls EXCEPT ![i] = Append(@, Call("get_logs", "ok"))]
    /\ targets' = [targets EXCEPT ![i] = Append(@, job[i][1].name)]
    /\ \E text \in LogTexts :
          /\ fetched' = [fetched EXCEPT ![i] = Some(text)]
          /\ enrichments' = [enrichments EXCEPT ![i] =
                                @ \o log_enrichments(text)]
    /\ pc' = [pc EXCEPT ![i] = "returned"]
    /\ UNCHANGED <<params, event, job_name, job, log, raised, caught, cluster>>

\* line 158: pod.get_logs() raised
GetLogsFailed(i) ==
    /\ pc[i] = "get_logs"
    /\ calls' = [calls EXCEPT ![i] = Append(@, Call("get_logs", "error"))]
    /\ targets' = [targets EXCEPT ![i] = Append(@, job[i][1].name)]
    /\ \E m \in Msgs :
          Except(i, Exception(m))
    /\ UNCHANGED <<params, event, job_name, job, raised, fetched, cluster>>

Next ==
    \E i \in Invs :
        \/ Start(i)
        \/ CreateOk(i)
        \/ CreateRejected(i)
        \/ WaitCompleted(i)
        \/ WaitTimedOut(i)
        \/ WaitFailed(i)
        \/ WaitCancelled(i)
        \/ GetPodOk(i)
        \/ GetPodFailed(i)
        \/ GetLogsOk(i)
        \/ GetLogsFailed(i)

Spec == Init /\ [][Next]_vars

\* the builder alone, on the full range of its inputs
NextBuild == \E i \in Invs : Start(i)

SpecBuild == InitBuild /\ [][NextBuild]_vars

\* two invocations, interleaved at their calls to the cluster
SpecConc == InitConc /\ [][Next]_vars


----------------------------------------------------------------------------
(* Vocabulary of the properties *)

\* how many elements of sequence s satisfy P
Count(s, P(_)) == Cardinality({j \in 1..Len(s) : P(s[j])})

\* the text has this piece
Contains(text, piece) == \E j \in 1..Len(text) : text[j] = piece

IsFileBlock(b) == b.type = "file"

IsTimedOutBlock(b) == b.type = "markdown" /\ Contains(b.text, <<"timed out">>)

IsCreatedBlock(b) ==
    /\ b.type = "markdown"
    /\ Contains(b.text,
          <<"**Action Job Information** \n Created Job from alert: *">>)

\* a completion-related enrichment: the log file or the timeout text
IsCompletionBlock(b) == IsFileBlock(b) \/ IsTimedOutBlock(b)

\* invocation i made the call op and it ended with result
Made(i, op, result) == \E j \in 1..Len(calls[i]) : calls[i][j] = Call(op, result)

\* how many times invocation i called op
NCalls(i, op) == Cardinality({j \in 1..Len(calls[i]) : calls[i][j].op = op})

\* a call of the wait/report phase of invocation i failed other than by the
\* deadline of the wait
GenericFailure(i) ==
    \/ Made(i, "wait", "error")
    \/ Made(i, "get_single_pod", "error")
    \/ Made(i, "get_logs", "error")

IsWarning(l) == l.level = "warning"

----------------------------------------------------------------------------
(* C1 - C5, C7, C8: the handler *)

\* C1: a completion-related enrichment is added only on successful
\* completion (a file block with the logs) and on timeout (a text); when the
\* wait/report phase ends with a generic, non-timeout failure no enrichment
\* is added and a warning is logged.
C1_EnrichmentOnlyOnSuccessOrTimeout ==
    \A i \in Invs :
        /\ \A j \in 1..Len(enrichments[i]) :
              /\ IsFileBlock(enrichments[i][j]) =>
                    Made(i, "wait", "ok") /\ Made(i, "get_logs", "ok")
              /\ IsTimedOutBlock(enrichments[i][j]) =>
                    Made(i, "wait", "timeout")
        /\ GenericFailure(i) =>
              /\ Count(enrichments[i], IsCompletionBlock) = 0
              /\ Count(log[i], IsWarning) = 1

\* C2: once the handler has returned, the timed-out text is on the alert if
\* and only if the wait itself ended by its deadline, whatever the message of
\* any other error.
C2_TimeoutIsStructural ==
    \A i \in Invs :
        pc[i] = "returned" =>
            (Count(enrichments[i], IsTimedOutBlock) >= 1
                <=> Made(i, "wait", "timeout"))

C5_NotifyWithoutWait ==
    \A i \in Invs :
        (params[i].notify /\ ~params[i].wait_for_completion
            /\ Made(i, "create", "ok")) =>
            /\ Count(enrichments[i], IsCreatedBlock) = 1
            /\ \A j \in 1..Len(enrichments[i]) :
                  IsCreatedBlock(enrichments[i][j]) =>
                      Contains(enrichments[i][j].text, job_name[i][1])
            /\ Count(enrichments[i], IsCompletionBlock) = 0
            /\ pc[i] = "returned"
            /\ calls[i] = << Call("create", "ok") >>

C5_Witness ==
    \E i \in Invs :
        /\ params[i].notify
        /\ ~params[i].wait_for_completion
        /\ Made(i, "create", "ok")
        /\ pc[i] = "returned"
        /\ Len(enrichments[i]) = 1

\* C7: when the cluster rejects job.create(), the exception leaves
\* run_job_from_alert: create was called once, nothing else was called, and
\* no enrichment was added.
C7_CreateRejectedPropagates ==
    \A i \in Invs :
        Made(i, "create", "error") =>
            /\ pc[i] = "raised"
            /\ raised[i] = "ApiException"
            /\ calls[i] = << Call("create", "error") >>
            /\ enrichments[i] = << >>

C7_Witness ==
    \E i \in Invs :
        /\ Made(i, "create", "error")
        /\ params[i].notify
        /\ params[i].wait_for_completion
        /\ pc[i] = "raised"

\* C8: an invocation whose image or command is empty ends with an
\* invalid-configuration error before any call to the cluster.  (Stated for
\* the invocations that line 90 lets through: what line 90 raises is the
\* subject of C6.)
C8_InvalidConfigRejected ==
    \A i \in Invs :
        ( /\ params[i].image = "" \/ params[i].command = << >>
          /\ raised[i] \notin {"AttributeError", "TypeError"} ) =>
            \/ pc[i] \in {"idle", "start"}
            \/ /\ pc[i] = "raised"
               /\ raised[i] = "InvalidConfig"
               /\ calls[i] = << >>

----------------------------------------------------------------------------
(* C6, C9, C10: the environment list *)

\* the caller-supplied env_vars, [] when absent
CallerSupplied(i) ==
    IF params[i].env_vars = None THEN << >> ELSE params[i].env_vars[1]

\* the builder of invocation i has run
BuilderRan(i) == pc[i] \notin {"idle", "start"}

\* the builder of invocation i returned a list
Built(i) == job[i] /= None

\* C6: for every JobParams, with or without env_vars, the builder returns a
\* list, and every caller-supplied entry is in it.
C6_EnvVarsAppended ==
    \A i \in Invs :
        BuilderRan(i) =>
            /\ Built(i)
            /\ raised[i] \notin {"AttributeError", "TypeError"}
            /\ \A j \in 1..Len(CallerSupplied(i)) :
                  Contains(job[i][1].env, CallerSupplied(i)[j])

UpperLetters == {"F", "O", "B", "A", "R"}

CasePairs == { <<"f", "F">>, <<"o", "O">>, <<"b", "B">>, <<"a", "A">>,
               <<"r", "R">> }

\* U is the upper-case form of character c
IsUpperOf(U, c) == U \in UpperLetters /\ (U = c \/ <<c, U>> \in CasePairs)

\* e is ALERT_LABEL_<upper-cased k> = v for the label item
IsLabelVarOf(e, item) ==
    /\ e.value = item.v
    /\ Len(e.name) = 1 + Len(item.k)
    /\ e.name[1] = "ALERT_LABEL_"
    /\ \A c \in 1..Len(item.k) : IsUpperOf(e.name[c + 1], item.k[c])

\* names of the entries derived from the alert and its subject
SubjectVarNames ==
    { <<"ALERT_NAME">>, <<"ALERT_STATUS">>, <<"ALERT_OBJ_KIND">>,
      <<"ALERT_OBJ_NAME">>, <<"ALERT_OBJ_NAMESPACE">>, <<"ALERT_OBJ_NODE">> }

\* C9: the list ends with one entry per alert label, in the labels' order,
\* each named ALERT_LABEL_ + the upper-cased label name and valued the
\* label's value, whatever the casing of the name; every entry before them
\* is derived from the alert subject or supplied by the caller.
C9_LabelVars ==
    \A i \in Invs :
        Built(i) =>
            LET env == job[i][1].env
                L   == event[i].labels
                off == Len(env) - Len(L)
            IN  /\ Len(env) >= Len(L) + 4
                /\ \A j \in 1..Len(L) : IsLabelVarOf(env[off + j], L[j])
                /\ \A j \in 1..off :
                      \/ env[j].name \in SubjectVarNames
                      \/ Contains(CallerSupplied(i), env[j])

C9_Witness ==
    \E i \in Invs :
        /\ Built(i)
        /\ Len(event[i].labels) = 2
        /\ event[i].labels[1].k = <<"f", "o", "o">>
        /\ event[i].labels[2].k = <<"F", "o", "o">>
        /\ event[i].labels[1].v /= event[i].labels[2].v

\* the subject has this optional field: it is neither None nor empty
Has(o) == o /= None /\ o[1] /= ""

\* C10 as stated, for one name and the subject field it comes from
ExactlyWhenPresent(env, name, o) ==
    LET Named(e) == e.name = name
    IN  /\ ~Has(o) => Count(env, Named) = 0
        /\ Has(o) =>
              /\ Count(env, Named) = 1
              /\ \A j \in 1..Len(env) : Named(env[j]) => env[j].value = o[1]

ExactlyWhenPresentBesidesCaller(env, name, o, caller) ==
    LET Named(e) == e.name = name
        Here == IF Has(o) THEN 1 ELSE 0
    IN  /\ Count(env, Named) >= Here
        /\ Count(env, Named) <= Here + Count(caller, Named)
        /\ Has(o) => Contains(env, EnvVar(name, o[1]))
        /\ \A j \in 1..Len(env) :
              Named(env[j]) =>
                  \/ Has(o) /\ env[j].value = o[1]
                  \/ Contains(caller, env[j])

----------------------------------------------------------------------------
(* C12 - C15, C17 - C19: the handler, continued *)

\* how many blocks the handler adds for the creation of the job
Notified(i) == IF params[i].notify THEN 1 ELSE 0

\* C12: a failure of the pod lookup or of the log fetch after a successful
\* wait never leaves run_job_from_alert, is logged as one warning and adds
\* no enrichment of any kind.
C12_FetchFailureAbsorbed ==
    \A i \in Invs :
        (Made(i, "get_single_pod", "error") \/ Made(i, "get_logs", "error")) =>
            /\ pc[i] = "returned"
            /\ raised[i] = "none"
            /\ Count(log[i], IsWarning) = 1
            /\ Count(enrichments[i], IsCompletionBlock) = 0
            /\ Len(enrichments[i]) = Notified(i)

\* C13: after a timeout or a failure of the wait the handler returns
\* normally, the timeout having gone to the enrichment path and the failure
\* to the log-only path.
C13_WaitErrorsRouted ==
    \A i \in Invs :
        /\ (Made(i, "wait", "timeout") \/ Made(i, "wait", "error")) =>
              /\ pc[i] = "returned"
              /\ raised[i] = "none"
              /\ Count(log[i], IsWarning) = 1
        /\ Made(i, "wait", "timeout") =>
              Count(enrichments[i], IsTimedOutBlock) = 1
        /\ Made(i, "wait", "error") =>
              Count(enrichments[i], IsCompletionBlock) = 0

\* C14: create is called at most once, first of all calls and only with the
\* Job object fully built (image, command and the whole environment list);
\* every wait is made on the job this invocation created.
C14_OneJobPerInvocation ==
    \A i \in Invs :
        /\ NCalls(i, "create") <= 1
        /\ \A j \in 1..Len(calls[i]) :
              /\ calls[i][j].op = "create" =>
                    /\ j = 1
                    /\ Built(i)
                    /\ targets[i][j] = job_name[i][1]
                    /\ job[i][1].name = job_name[i][1]
                    /\ job[i][1].image = params[i].image
                    /\ job[i][1].command = params[i].command
                    /\ Len(job[i][1].env) >= 4 + Len(event[i].labels)
              /\ calls[i][j].op = "wait" =>
                    /\ calls[i][1] = Call("create", "ok")
                    /\ targets[i][j] = job_name[i][1]
                    /\ \E c \in cluster :
                          c.name = targets[i][j] /\ c = job[i][1]
        /\ Made(i, "create", "ok") => job[i][1] \in cluster
        /\ Cardinality(cluster)
              <= Cardinality({k \in Invs : Made(k, "create", "ok")})

C14_Witness ==
    \E i \in Invs :
        /\ calls[i] = << Call("create", "ok"), Call("wait", "ok") >>
        /\ pc[i] = "get_pod"
        /\ Len(event[i].labels) = 1

\* C15: with notify=true the "created" block is on the alert as soon as
\* job.create() has succeeded, before the wait is called, and it is the
\* first block whatever follows; nothing is on the alert before that.
C15_CreatedBlockFirst ==
    \A i \in Invs :
        /\ ~Made(i, "create", "ok") => enrichments[i] = << >>
        /\ (params[i].notify /\ Made(i, "create", "ok")) =>
              /\ Len(enrichments[i]) >= 1
              /\ IsCreatedBlock(enrichments[i][1])
              /\ Contains(enrichments[i][1].text, job_name[i][1])
              /\ \A j \in 2..Len(enrichments[i]) :
                    IsCompletionBlock(enrichments[i][j])

C15_Witness ==
    \E i \in Invs :
        /\ params[i].notify
        /\ pc[i] = "wait"
        /\ calls[i] = << Call("create", "ok") >>
        /\ Len(enrichments[i]) = 1
        /\ IsCreatedBlock(enrichments[i][1])

\* the calls the handler can make
HandlerOps == {"create", "wait", "get_single_pod", "get_logs"}

\* C17: when the invocation is cancelled during the wait, the wait was its
\* last call and no enrichment is added after it; on no path does the
\* handler call anything but create, wait, pod lookup and log fetch, and
\* the job it created stays on the cluster.
C17_CancelledWait ==
    \A i \in Invs :
        /\ Made(i, "wait", "cancelled") =>
              /\ calls[i] = << Call("create", "ok"), Call("wait", "cancelled") >>
              /\ pc[i] = "raised"
              /\ Len(enrichments[i]) = Notified(i)
              /\ Count(enrichments[i], IsCompletionBlock) = 0
        /\ \A j \in 1..Len(calls[i]) : calls[i][j].op \in HandlerOps
        /\ Made(i, "create", "ok") => job[i][1] \in cluster

C17_Witness ==
    \E i \in Invs :
        /\ Made(i, "wait", "cancelled")
        /\ params[i].notify
        /\ pc[i] = "raised"
        /\ job[i][1] \in cluster

\* C18: a wait is called only with wait_for_completion=true; with
\* wait_for_completion=false, whatever notify, the handler returns right
\* after create, having called neither wait nor pod lookup nor log fetch.
C18_WaitOnlyIfAsked ==
    \A i \in Invs :
        /\ NCalls(i, "wait") >= 1 => params[i].wait_for_completion
        /\ ~params[i].wait_for_completion =>
              /\ NCalls(i, "wait") = 0
              /\ NCalls(i, "get_single_pod") = 0
              /\ NCalls(i, "get_logs") = 0
              /\ Made(i, "create", "ok") =>
                    /\ pc[i] = "returned"
                    /\ Len(enrichments[i]) = Notified(i)

C18_Witness ==
    \E i \in Invs :
        /\ ~params[i].wait_for_completion
        /\ ~params[i].notify
        /\ Made(i, "create", "ok")
        /\ pc[i] = "returned"
        /\ enrichments[i] = << >>

\* C19: the alert gets at most two blocks: at most one "created" block
\* (none with notify=false) and at most one completion-related block, the
\* log file or the timeout text.
C19_AtMostTwoEnrichments ==
    \A i \in Invs :
        /\ Len(enrichments[i]) <= 2
        /\ Count(enrichments[i], IsCreatedBlock) <= Notified(i)
        /\ Count(enrichments[i], IsCompletionBlock) <= 1
        /\ \A j \in 1..Len(enrichments[i]) :
              IsCreatedBlock(enrichments[i][j])
                  \/ IsCompletionBlock(enrichments[i][j])

C19_Witness ==
    \E i \in Invs :
        /\ Len(enrichments[i]) = 2
        /\ IsCreatedBlock(enrichments[i][1])
        /\ IsFileBlock(enrichments[i][2])
        /\ pc[i] = "returned"

----------------------------------------------------------------------------
(* C16: the environment list, continued *)

\* C16: no two entries of the built list have the same name.
C16_UniqueNames ==
    \A i \in Invs :
        Built(i) =>
            \A a, b \in 1..Len(job[i][1].env) :
                a /= b => job[i][1].env[a].name /= job[i][1].env[b].name

----------------------------------------------------------------------------
(* C11: two invocations at once *)

\* everything invocation i owns
Local(i) ==
    << params[i], event[i], pc[i], job_name[i], job[i], enrichments[i],
       log[i], calls[i], targets[i], raised[i], caught[i], fetched[i] >>

\* a step invocation i can take when it runs alone
AloneNext(i) ==
    \/ StartWith(i, Uids)
    \/ CreateOk(i)
    \/ CreateRejected(i)
    \/ WaitCompleted(i)
    \/ WaitTimedOut(i)
    \/ WaitFailed(i)
    \/ WaitCancelled(i)
    \/ GetPodOk(i)
    \/ GetPodFailed(i)
    \/ GetLogsOk(i)
    \/ GetLogsFailed(i)

\* invocation i calls only on its own job and its alert holds only blocks
\* about its own job
OwnJobOnly(i) ==
    /\ \A j \in 1..Len(targets[i]) :
          /\ targets[i][j] = job_name[i][1]
          /\ \A k \in Invs \ {i} :
                job_name[k] /= None => targets[i][j] /= job_name[k][1]
    /\ \A j \in 1..Len(enrichments[i]) :
          /\ enrichments[i][j].type = "markdown" =>
                /\ Contains(enrichments[i][j].text, job_name[i][1])
                /\ \A k \in Invs \ {i} :
                      job_name[k] /= None =>
                          ~Contains(enrichments[i][j].text, job_name[k][1])
          /\ IsFileBlock(enrichments[i][j]) =>
                /\ fetched[i] /= None
                /\ enrichments[i][j].contents = fetched[i][1]
    /\ Count(enrichments[i], IsFileBlock) <= NCalls(i, "get_logs")

============================================================================
